---- MODULE Spec2Model ----
(***************************************************************************)
(* Supertonic TTS: the inference orchestration of TextToSpeech.call and    *)
(* TextToSpeech._infer (supertonic-helper) and the part of                 *)
(* SupertonicTTS.synthesize that wraps it, and the helper functions        *)
(* chunkText, preprocessText, UnicodeProcessor.call, sampleNoisyLatent and *)
(* writeWavFile, each also applied on its own to inputs drawn from bounded *)
(* sets (SpecChunk, SpecPre, SpecTok, SpecLatent, SpecWav).                *)
(*                                                                         *)
(* Units.  Durations are JavaScript numbers in seconds; here they are      *)
(* integers counting tenths of a second, so floor(d * sampleRate) is       *)
(* (d * sample_rate) \div 10.  Samples are numbers in [-1, 1]; here they   *)
(* are integers counting halves, so 0.5 is 1 and 1.5 is 3.                 *)
(***************************************************************************)
EXTENDS Integers, Sequences, FiniteSets, TLC

\* ------------------------------------------------------------------ bounds
MaxChunks == 2
MaxStep == 2
MaxDur == 1
MaxWavLen == 1
\* chunkText on its own: the longest text and the largest maxLen
MaxTextLen == 5
MaxPack == 5
\* preprocessText on its own: the most pieces a text is made of
MaxPreLen == 3
\* UnicodeProcessor.call on its own: the longest text and the largest batch
MaxTokLen == 2
MaxBatch == 2
\* sampleNoisyLatent on its own: the longest duration (tenths of a second) and
\* the largest batch
MaxLatDur == 8
MaxLatBatch == 2
\* writeWavFile on its own: the most samples
MaxSamples == 3
\* the SupertonicTTS instance: the most calls made on it
MaxCalls == 3

\* ------------------------------------------------------- program constants
\* synthesize passes totalStep 2, speed 1.0, silenceDuration 0.3 (3 tenths)
SynthTotalStep == 2
SynthSpeed == 1
SynthSilence == 3

AVAILABLE_LANGS == {"en", "ko", "es", "pt", "fr"}

\* a check that accepts every tag
isValidLangAny(lang) == TRUE

isValidLang(lang) == lang \in AVAILABLE_LANGS

\* TTSConfig as loaded from tts.json (any numbers; small ones here)
cfgs ==
  [ae |-> [sample_rate |-> 5, base_chunk_size |-> 1],
   ttl |-> [chunk_compress_factor |-> 2, latent_dim |-> 1]]

sampleRate == cfgs.ae.sample_rate

\* ------------------------------------------------------------ arithmetic
\* Math.floor(seconds * rate), seconds given in tenths
FloorSamples(tenths, rate) == (tenths * rate) \div 10

\* Math.floor((len + chunkSize - 1) / chunkSize)
CeilDiv(len, chunkSize) == (len + chunkSize - 1) \div chunkSize

Min(a, b) == IF a < b THEN a ELSE b

Max(a, b) == IF a > b THEN a ELSE b

\* Math.max(...lengths) of a list that is not empty
RECURSIVE MaxOf(_)
MaxOf(lengths) ==
  IF Len(lengths) = 1 THEN lengths[1] ELSE Max(Head(lengths), MaxOf(Tail(lengths)))

Range(s) == {s[k] : k \in DOMAIN s}

RECURSIVE SeqSum(_)
SeqSum(s) == IF Len(s) = 0 THEN 0 ELSE Head(s) + SeqSum(Tail(s))

Zeros(n) == [k \in 1..n |-> 0]

\* ------------------------------------------------------------- tensors
\* xt.flat(2): row-major (batch, then latent dim, then time)
Flat3(x) ==
  LET B == Len(x)
      D == IF B = 0 THEN 0 ELSE Len(x[1])
      T == IF D = 0 THEN 0 ELSE Len(x[1][1])
  IN [k \in 1..(B * D * T) |->
        x[((k - 1) \div (D * T)) + 1]
         [(((k - 1) % (D * T)) \div T) + 1]
         [((k - 1) % T) + 1]]

\* the "Reshape to 3D" loops of _infer: idx++ over b, d, t
Reshape3(flat, B, D, T) ==
  [b \in 1..B |-> [d \in 1..D |-> [t \in 1..T |->
      flat[((b - 1) * D + (d - 1)) * T + t]]]]

\* TextToSpeech.lengthToMask(lengths, maxLen): one [row] per batch item
lengthToMask(lengths, maxLen) ==
  LET actualMaxLen == IF maxLen # 0 THEN maxLen ELSE MaxOf(lengths)
  IN [b \in 1..Len(lengths) |->
        <<[j \in 1..actualMaxLen |-> IF j <= Min(lengths[b], actualMaxLen) THEN 1 ELSE 0]>>]

\* the Box-Muller draw at (d, t): some nonzero number, different per place
NoiseSeeds == {1, 2}

Noise(seed, d, t) == seed * 100 + d * 10 + t

\* a latent that is left as drawn
ApplyMaskNever(val, m) == val

\* xt[b][d][t] *= latentMask[b][0][t]
ApplyMask(val, m) == val * m

\* sampleNoisyLatent(duration, sampleRate, baseChunkSize, chunkCompress,
\* latentDim), the durations in tenths of a second
sampleNoisyLatent(duration, rate, baseChunkSize, chunkCompress, latentDim, seed) ==
  LET bsz == Len(duration)
      maxDur == MaxOf(duration)
      wavLenMax == FloorSamples(maxDur, rate)
      wavLengths == [b \in 1..bsz |-> FloorSamples(duration[b], rate)]
      chunkSize == baseChunkSize * chunkCompress
      latentLen == CeilDiv(wavLenMax, chunkSize)
      latentDimVal == latentDim * chunkCompress
      drawn == [b \in 1..bsz |-> [d \in 1..latentDimVal |->
                  [t \in 1..latentLen |-> Noise(seed, d, t) + 1000 * (b - 1)]]]
      latentLengths == [b \in 1..bsz |-> CeilDiv(wavLengths[b], chunkSize)]
      latentMask == lengthToMask(latentLengths, latentLen)
  IN [xt |-> [b \in 1..bsz |-> [d \in 1..latentDimVal |->
                [t \in 1..latentLen |-> ApplyMask(drawn[b][d][t], latentMask[b][1][t])]]],
      latentMask |-> latentMask]

\* ------------------------------------------------- the external models
\* durations the duration predictor may return for a speed: tenths of a second
DpDurations(speed) == {3 * k * speed : k \in 0..MaxDur}

\* the vector estimator: an opaque function of latent and step, shape kept
DenoisedLatent(flat, curStep) == [k \in 1..Len(flat) |-> flat[k] + 1000 * (curStep + 1)]

\* the vocoder: n samples for chunk c; -0.5 for chunk 1, 0.5, 1.5, ...
VocoderWav(c, n) == [k \in 1..n |-> 2 * c - 3]

BackendMsgs == {"ort: backend crash", "ort: invalid tensor"}

\* ------------------------------------------------------------ writeWavFile
\* view.setUint32(offset, x) without the little-endian flag
BE32(x) == <<(x \div 16777216) % 256, (x \div 65536) % 256, (x \div 256) % 256, x % 256>>

\* view.setUint32(offset, x, true): the four low bytes, little endian (with
\* floor division byte k of x is byte k of x modulo 2^32)
LE32(x) == <<x % 256, (x \div 256) % 256, (x \div 65536) % 256, (x \div 16777216) % 256>>

\* view.setUint16(offset, x, true), and the two bytes of an Int16Array entry
LE16(x) == <<x % 256, (x \div 256) % 256>>

\* int16Data[i] = Math.floor(clamped * 32767), the sample given in halves
Quantize(half) == (Max(-2, Min(2, half)) * 32767) \div 2

RECURSIVE PcmBytes(_)
PcmBytes(audioData) ==
  IF Len(audioData) = 0 THEN <<>>
  ELSE LE16(Quantize(Head(audioData))) \o PcmBytes(Tail(audioData))

writeWavFile(audioData, rate) ==
  LET numChannels == 1
      bitsPerSample == 16
      byteRate == (rate * numChannels * bitsPerSample) \div 8
      blockAlign == (numChannels * bitsPerSample) \div 8
      dataSize == Len(audioData) * 2
  IN <<82, 73, 70, 70>> \o LE32(36 + dataSize) \o <<87, 65, 86, 69>>
       \o <<102, 109, 116, 32>> \o LE32(16) \o LE16(1) \o LE16(numChannels)
       \o LE32(rate) \o LE32(byteRate) \o LE16(blockAlign) \o LE16(bitsPerSample)
       \o <<100, 97, 116, 97>> \o LE32(dataSize) \o PcmBytes(audioData)

\* ------------------------------------------------------------------ errors
\* an Error is its message, a sequence of the parts it was built from
StyleError == <<"Single speaker text to speech only supports single style">>

InvalidLangError(lang) == <<"Invalid language: ", lang, ". Available: en, ko, es, pt, fr">>

CallbackError == <<"progress callback threw">>

\* a catch that drops the message of what it caught
SynthesisFailedGeneric(e) == <<"Synthesis failed: ">>

\* synthesize's catch: new Error(`Synthesis failed: ${error.message}`)
SynthesisFailed(e) == <<"Synthesis failed: ">> \o e

\* ----------------------------------------------------------------- strings
\* A string is the sequence of its characters, each a one-character string;
\* "LF" is the line feed, and the characters outside ASCII have names:
\* "EMOJI" (U+1F600), "GOTHIC" (U+10348, outside the BMP and no emoji),
\* "HEART" (U+2665), "ELLIPSIS" (U+2026), "EACUTE" (U+00E9), "COMBACUTE" (U+0301).
Upper ==
  {"A", "B", "C", "D", "E", "F", "G", "H", "I", "J", "K", "L", "M", "N", "O", "P",
   "Q", "R", "S", "T", "U", "V", "W", "X", "Y", "Z"}

Lower ==
  {"a", "b", "c", "d", "e", "f", "g", "h", "i", "j", "k", "l", "m", "n", "o", "p",
   "q", "r", "s", "t", "u", "v", "w", "x", "y", "z"}

Digits == {"0", "1", "2", "3", "4", "5", "6", "7", "8", "9"}

\* \w, and what \b tells apart from the rest
WordChars == Upper \cup Lower \cup Digits \cup {"_"}

\* \s, as far as the characters of the model go
WhiteSpace == {" ", "LF"}

\* the characters that take two UTF-16 code units
Astral == {"EMOJI", "GOTHIC"}

\* String.prototype.length: UTF-16 code units
RECURSIVE StrLen(_)
StrLen(s) ==
  IF Len(s) = 0 THEN 0
  ELSE (IF Head(s) \in Astral THEN 2 ELSE 1) + StrLen(Tail(s))

RECURSIVE TrimStart(_)
TrimStart(s) ==
  IF Len(s) > 0 /\ Head(s) \in WhiteSpace THEN TrimStart(Tail(s)) ELSE s

RECURSIVE TrimEnd(_)
TrimEnd(s) ==
  IF Len(s) > 0 /\ s[Len(s)] \in WhiteSpace THEN TrimEnd(SubSeq(s, 1, Len(s) - 1)) ELSE s

\* String.prototype.trim
Trim(s) == TrimEnd(TrimStart(s))

\* the last index of the run of white space that starts at p (p - 1 if none)
RECURSIVE WsRunEnd(_, _)
WsRunEnd(s, p) ==
  IF p <= Len(s) /\ s[p] \in WhiteSpace THEN WsRunEnd(s, p + 1) ELSE p - 1

\* ---------------------------------------------------------------- chunkText
\* /\n\s*\n+/ at p: a line feed, then the white space up to the last line feed
\* of the run (\s* gives back what \n+ needs); 0 when there is no match at p
ParagraphSepEnd(s, p) ==
  IF s[p] # "LF" THEN 0
  ELSE LET lfs == {q \in (p + 1)..WsRunEnd(s, p + 1) : s[q] = "LF"}
       IN IF lfs = {} THEN 0 ELSE CHOOSE q \in lfs : \A r \in lfs : r <= q

\* text.split(/\n\s*\n+/), from index from on
RECURSIVE SplitParagraphs(_, _)
SplitParagraphs(s, from) ==
  LET starts == {p \in from..Len(s) : ParagraphSepEnd(s, p) # 0}
  IN IF starts = {} THEN <<SubSeq(s, from, Len(s))>>
     ELSE LET p == CHOOSE q \in starts : \A r \in starts : q <= r
          IN <<SubSeq(s, from, p - 1)>> \o SplitParagraphs(s, ParagraphSepEnd(s, p) + 1)

\* the abbreviations of the sentence regex's first lookbehind
Abbreviations ==
  {<<"M", "r", ".">>, <<"M", "r", "s", ".">>, <<"M", "s", ".">>, <<"D", "r", ".">>,
   <<"P", "r", "o", "f", ".">>, <<"S", "r", ".">>, <<"J", "r", ".">>,
   <<"P", "h", ".", "D", ".">>, <<"e", "t", "c", ".">>, <<"e", ".", "g", ".">>,
   <<"i", ".", "e", ".">>, <<"v", "s", ".">>, <<"I", "n", "c", ".">>,
   <<"L", "t", "d", ".">>, <<"C", "o", ".">>, <<"C", "o", "r", "p", ".">>,
   <<"S", "t", ".">>, <<"A", "v", "e", ".">>, <<"B", "l", "v", "d", ".">>}

\* s ends with suffix right before index p
EndsBefore(s, p, suffix) ==
  /\ p - Len(suffix) >= 1
  /\ SubSeq(s, p - Len(suffix), p - 1) = suffix

\* (?<!Mr\.|...)(?<!\b[A-Z]\.)(?<=[.!?])\s+ matches at p
SentenceSepAt(s, p) ==
  /\ p > 1
  /\ s[p] \in WhiteSpace
  /\ s[p - 1] \in {".", "!", "?"}
  /\ \A abbr \in Abbreviations : ~EndsBefore(s, p, abbr)
  /\ ~(/\ s[p - 1] = "."
       /\ p - 2 >= 1
       /\ s[p - 2] \in Upper
       /\ (p - 3 < 1 \/ s[p - 3] \notin WordChars))

\* paragraph.split(<the sentence regex>), from index from on
RECURSIVE SplitSentences(_, _)
SplitSentences(s, from) ==
  LET starts == {p \in from..Len(s) : SentenceSepAt(s, p)}
  IN IF starts = {} THEN <<SubSeq(s, from, Len(s))>>
     ELSE LET p == CHOOSE q \in starts : \A r \in starts : q <= r
          IN <<SubSeq(s, from, p - 1)>> \o SplitSentences(s, WsRunEnd(s, p) + 1)

\* if (currentChunk) chunks.push(currentChunk.trim())
Flush(currentChunk) == IF Len(currentChunk) > 0 THEN <<Trim(currentChunk)>> ELSE <<>>

\* a test that forgets the joining space
FitsNoSpace(currentChunk, sentence, maxLen) ==
  StrLen(currentChunk) + StrLen(sentence) <= maxLen

\* currentChunk.length + sentence.length + 1 <= maxLen
Fits(currentChunk, sentence, maxLen) ==
  StrLen(currentChunk) + StrLen(sentence) + 1 <= maxLen

\* a loop that loses the sentence that did not fit
RECURSIVE PackSentencesDropsOverflow(_, _, _, _)
PackSentencesDropsOverflow(sentences, k, currentChunk, maxLen) ==
  IF k > Len(sentences) THEN Flush(currentChunk)
  ELSE IF Fits(currentChunk, sentences[k], maxLen)
       THEN PackSentencesDropsOverflow(sentences, k + 1,
              currentChunk \o (IF Len(currentChunk) > 0 THEN <<" ">> ELSE <<>>)
                \o sentences[k], maxLen)
       ELSE Flush(currentChunk) \o PackSentencesDropsOverflow(sentences, k + 1, <<>>, maxLen)

\* a loop with no flush after it
RECURSIVE PackSentencesNoFinalFlush(_, _, _, _)
PackSentencesNoFinalFlush(sentences, k, currentChunk, maxLen) ==
  IF k > Len(sentences) THEN <<>>
  ELSE IF Fits(currentChunk, sentences[k], maxLen)
       THEN PackSentencesNoFinalFlush(sentences, k + 1,
              currentChunk \o (IF Len(currentChunk) > 0 THEN <<" ">> ELSE <<>>)
                \o sentences[k], maxLen)
       ELSE Flush(currentChunk) \o PackSentencesNoFinalFlush(sentences, k + 1, sentences[k], maxLen)

\* the loop over the sentences of one paragraph, from sentence k on, and the
\* flush after it
RECURSIVE PackSentences(_, _, _, _)
PackSentences(sentences, k, currentChunk, maxLen) ==
  IF k > Len(sentences) THEN Flush(currentChunk)
  ELSE IF Fits(currentChunk, sentences[k], maxLen)
       THEN PackSentences(sentences, k + 1,
              currentChunk \o (IF Len(currentChunk) > 0 THEN <<" ">> ELSE <<>>)
                \o sentences[k], maxLen)
       ELSE Flush(currentChunk) \o PackSentences(sentences, k + 1, sentences[k], maxLen)

\* text.trim().split(/\n\s*\n+/).filter(p => p.trim())
Paragraphs(text) ==
  SelectSeq(SplitParagraphs(Trim(text), 1), LAMBDA para : Len(Trim(para)) > 0)

\* the sentences of one paragraph
Sentences(paragraph) == SplitSentences(Trim(paragraph), 1)

\* a paragraph's chunks; nothing for a paragraph that trims to nothing
ChunkParagraph(paragraph, maxLen) ==
  IF Len(Trim(paragraph)) = 0 THEN <<>>
  ELSE PackSentences(Sentences(paragraph), 1, <<>>, maxLen)

RECURSIVE ChunkParagraphs(_, _)
ChunkParagraphs(paragraphs, maxLen) ==
  IF Len(paragraphs) = 0 THEN <<>>
  ELSE ChunkParagraph(Head(paragraphs), maxLen) \o ChunkParagraphs(Tail(paragraphs), maxLen)

chunkText(text, maxLen) == ChunkParagraphs(Paragraphs(text), maxLen)

\* ----------------------------------------------------------- preprocessText
\* More named characters: "ENDASH" (U+2013), "NBHYPHEN" (U+2011), "HYPHEN"
\* (U+2010), "EMDASH" (U+2014), "LDQUOTE" "RDQUOTE" (U+201C, U+201D),
\* "LSQUOTE" "RSQUOTE" (U+2018, U+2019), "ACUTE" (U+00B4), "RARROW" "LARROW"
\* (U+2192, U+2190), "BACKTICK" (U+0060), "STAR" (U+2606), "WHITEHEART" (U+2661), "COPYRIGHT"
\* (U+00A9), "NBSP" (U+00A0), "HANGUL_GA" (U+AC00) and its jamo "JAMO_G"
\* "JAMO_A" (U+1100, U+1161), "CJKSTOP" (U+3002), "RAQUO" (U+00BB).

\* the compatibility decomposition of one character
NFKDChar(c) ==
  CASE c = "ELLIPSIS" -> <<".", ".", ".">>
    [] c = "EACUTE" -> <<"e", "COMBACUTE">>
    [] c = "ACUTE" -> <<" ", "COMBACUTE">>
    [] c = "NBHYPHEN" -> <<"HYPHEN">>
    [] c = "NBSP" -> <<" ">>
    [] c = "HANGUL_GA" -> <<"JAMO_G", "JAMO_A">>
    [] OTHER -> <<c>>

\* text.normalize('NFKD')
RECURSIVE NFKD(_)
NFKD(s) == IF Len(s) = 0 THEN <<>> ELSE NFKDChar(Head(s)) \o NFKD(Tail(s))

\* the characters of emojiPattern (U+2600-U+27BF and the emoji planes)
emojiPattern == {"EMOJI", "HEART", "STAR", "WHITEHEART"}

\* text.replace(/[...]+/g, ''): the characters of a class removed
RECURSIVE RemoveAll(_, _)
RemoveAll(s, class) ==
  IF Len(s) = 0 THEN <<>>
  ELSE (IF Head(s) \in class THEN <<>> ELSE <<Head(s)>>) \o RemoveAll(Tail(s), class)

\* text.replaceAll(k, v), and text.replace(/k/g, v) for a literal k
RECURSIVE ReplaceAll(_, _, _)
ReplaceAll(s, k, v) ==
  IF Len(s) < Len(k) THEN s
  ELSE IF SubSeq(s, 1, Len(k)) = k
       THEN v \o ReplaceAll(SubSeq(s, Len(k) + 1, Len(s)), k, v)
       ELSE <<Head(s)>> \o ReplaceAll(Tail(s), k, v)

\* text.includes(k)
Includes(s, k) == \E p \in 1..(Len(s) - Len(k) + 1) : SubSeq(s, p, p + Len(k) - 1) = k

\* text.replace(k, v) for a string k: the first occurrence
RECURSIVE ReplaceFirst(_, _, _)
ReplaceFirst(s, k, v) ==
  IF Len(s) < Len(k) THEN s
  ELSE IF SubSeq(s, 1, Len(k)) = k
       THEN v \o SubSeq(s, Len(k) + 1, Len(s))
       ELSE <<Head(s)>> \o ReplaceFirst(Tail(s), k, v)

\* for (const [k, v] of Object.entries(table)) text = text.replaceAll(k, v)
RECURSIVE ApplyReplacements(_, _)
ApplyReplacements(s, table) ==
  IF Len(table) = 0 THEN s
  ELSE ApplyReplacements(ReplaceAll(s, Head(table)[1], Head(table)[2]), Tail(table))

replacements ==
  << <<<<"ENDASH">>, <<"-">>>>, <<<<"NBHYPHEN">>, <<"-">>>>, <<<<"EMDASH">>, <<"-">>>>,
     <<<<"_">>, <<" ">>>>, <<<<"LDQUOTE">>, <<"\"">>>>, <<<<"RDQUOTE">>, <<"\"">>>>,
     <<<<"LSQUOTE">>, <<"'">>>>, <<<<"RSQUOTE">>, <<"'">>>>, <<<<"ACUTE">>, <<"'">>>>,
     <<<<"BACKTICK">>, <<"'">>>>, <<<<"[">>, <<" ">>>>, <<<<"]">>, <<" ">>>>,
     <<<<"|">>, <<" ">>>>, <<<<"/">>, <<" ">>>>, <<<<"#">>, <<" ">>>>,
     <<<<"RARROW">>, <<" ">>>>, <<<<"LARROW">>, <<" ">>>> >>

\* /[♥☆♡©\\]/g
SpecialSymbols == {"HEART", "STAR", "WHITEHEART", "COPYRIGHT", "\\"}

exprReplacements ==
  << <<<<"@">>, <<" ", "a", "t", " ">>>>,
     <<<<"e", ".", "g", ".", ",">>,
       <<"f", "o", "r", " ", "e", "x", "a", "m", "p", "l", "e", ",", " ">>>>,
     <<<<"i", ".", "e", ".", ",">>,
       <<"t", "h", "a", "t", " ", "i", "s", ",", " ">>>> >>

\* "Fix spacing around punctuation": / ,/g to ',' and so on, in this order
spacingFixes ==
  << <<<<" ", ",">>, <<",">>>>, <<<<" ", ".">>, <<".">>>>, <<<<" ", "!">>, <<"!">>>>,
     <<<<" ", "?">>, <<"?">>>>, <<<<" ", ";">>, <<";">>>>, <<<<" ", ":">>, <<":">>>>,
     <<<<" ", "'">>, <<"'">>>> >>

\* while (text.includes(qq)) text = text.replace(qq, q)
RECURSIVE CollapseDuplicates(_, _)
CollapseDuplicates(s, q) ==
  IF Includes(s, <<q, q>>) THEN CollapseDuplicates(ReplaceFirst(s, <<q, q>>, <<q>>), q)
  ELSE s

\* text.replace(/\s+/g, ' ')
RECURSIVE CollapseSpaces(_)
CollapseSpaces(s) ==
  IF Len(s) = 0 THEN <<>>
  ELSE IF Head(s) \in WhiteSpace
       THEN <<" ">> \o CollapseSpaces(TrimStart(s))
       ELSE <<Head(s)>> \o CollapseSpaces(Tail(s))

\* the class of /[.!?;:,'\"')\]}…。」』】〉》›»]$/
Terminal ==
  {".", "!", "?", ";", ":", ",", "'", "\"", ")", "]", "}", "ELLIPSIS", "CJKSTOP",
   "RCORNER", "RWCORNER", "RLENT", "RANGLE", "RDANGLE", "RSAQUO", "RAQUO"}

\* a normalizer that appends nothing
EnsureTerminalNever(s) == s

\* if the text does not end in a terminal character, add a period
EnsureTerminal(s) ==
  IF Len(s) > 0 /\ s[Len(s)] \in Terminal THEN s ELSE s \o <<".">>

\* the characters of a language tag
LangChars(lang) ==
  CASE lang = "en" -> <<"e", "n">>
    [] lang = "ko" -> <<"k", "o">>
    [] lang = "es" -> <<"e", "s">>
    [] lang = "pt" -> <<"p", "t">>
    [] lang = "fr" -> <<"f", "r">>
    [] lang = "xx" -> <<"x", "x">>

OpenTag(lang) == <<"<">> \o LangChars(lang) \o <<">">>

CloseTag(lang) == <<"<", "/">> \o LangChars(lang) \o <<">">>

\* the text before the language is validated
CleanText(text) ==
  LET normalized == NFKD(text)
      noEmoji == RemoveAll(normalized, emojiPattern)
      replaced == ApplyReplacements(noEmoji, replacements)
      noSymbols == RemoveAll(replaced, SpecialSymbols)
      expanded == ApplyReplacements(noSymbols, exprReplacements)
      spaced == ApplyReplacements(expanded, spacingFixes)
      unquoted == CollapseDuplicates(CollapseDuplicates(CollapseDuplicates(spaced, "\""), "'"), "BACKTICK")
  IN EnsureTerminal(Trim(CollapseSpaces(unquoted)))

\* preprocessText(text, lang): the wrapped text, or the error thrown
preprocessText(text, lang) ==
  IF ~isValidLang(lang)
  THEN [ok |-> FALSE, text |-> <<>>, error |-> InvalidLangError(lang)]
  ELSE [ok |-> TRUE, text |-> OpenTag(lang) \o CleanText(text) \o CloseTag(lang),
        error |-> <<>>]

\* ------------------------------------------------------ UnicodeProcessor.call
\* the code point of a character
CodePoint(c) ==
  CASE c = "LF" -> 10 [] c = " " -> 32 [] c = "\"" -> 34 [] c = "'" -> 39
    [] c = "," -> 44 [] c = "-" -> 45 [] c = "." -> 46 [] c = "/" -> 47
    [] c = "<" -> 60 [] c = ">" -> 62 [] c = "@" -> 64 [] c = "_" -> 95
    [] c = "a" -> 97 [] c = "e" -> 101 [] c = "f" -> 102 [] c = "g" -> 103
    [] c = "h" -> 104 [] c = "i" -> 105 [] c = "k" -> 107 [] c = "l" -> 108
    [] c = "m" -> 109 [] c = "n" -> 110 [] c = "o" -> 111 [] c = "p" -> 112
    [] c = "r" -> 114 [] c = "s" -> 115 [] c = "t" -> 116 [] c = "x" -> 120
    [] c = "COMBACUTE" -> 769 [] c = "JAMO_G" -> 4352 [] c = "JAMO_A" -> 4449
    [] c = "HYPHEN" -> 8208 [] c = "GOTHIC" -> 66376 [] c = "EMOJI" -> 128512

\* the UTF-16 code units of a character: itself, or a surrogate pair
Utf16Char(c) ==
  LET cp == CodePoint(c)
  IN IF cp > 65535
     THEN <<55296 + ((cp - 65536) \div 1024), 56320 + ((cp - 65536) % 1024)>>
     ELSE <<cp>>

\* the code units of a string: what text.length counts and text[j] indexes
RECURSIVE Utf16(_)
Utf16(s) == IF Len(s) = 0 THEN <<>> ELSE Utf16Char(Head(s)) \o Utf16(Tail(s))

\* text.codePointAt(j - 1): the pair's code point at a high surrogate that a
\* low surrogate follows, the code unit itself anywhere else
codePointAt(units, j) ==
  IF /\ units[j] \in 55296..56319
     /\ j < Len(units)
     /\ units[j + 1] \in 56320..57343
  THEN 65536 + (units[j] - 55296) * 1024 + (units[j + 1] - 56320)
  ELSE units[j]

\* the indexer table is data of the deployment: its length is an input, its
\* entries are token ids
IndexerAt(codePoint) == (codePoint % 89) + 1

IndexerLengths == {100, 60000, 70000}

\* a mask row that is one position too long
MaskRowInclusive(len, actualMaxLen) ==
  [j \in 1..actualMaxLen |-> IF j <= Min(len + 1, actualMaxLen) THEN 1 ELSE 0]

\* one row of UnicodeProcessor.lengthToMask
MaskRow(len, actualMaxLen) ==
  [j \in 1..actualMaxLen |-> IF j <= Min(len, actualMaxLen) THEN 1 ELSE 0]

\* UnicodeProcessor.lengthToMask(lengths, maxLen)
textLengthToMask(lengths, maxLen) ==
  LET actualMaxLen == IF maxLen # 0 THEN maxLen ELSE MaxOf(lengths)
  IN [b \in 1..Len(lengths) |-> <<MaskRow(lengths[b], actualMaxLen)>>]

getTextMask(textIdsLengths) == textLengthToMask(textIdsLengths, MaxOf(textIdsLengths))

\* one row of textIds
TextIdsRow(text, maxLen, indexerLength) ==
  LET units == Utf16(text)
  IN [j \in 1..maxLen |->
        IF j <= Len(units)
        THEN (IF codePointAt(units, j) < indexerLength
              THEN IndexerAt(codePointAt(units, j)) ELSE -1)
        ELSE 0]

\* UnicodeProcessor.call(textList, langList) over an indexer of a given
\* length: textIds and textMask, or the error preprocessText threw
UnicodeProcessorCall(textList, langList, indexerLength) ==
  LET processed == [b \in 1..Len(textList) |-> preprocessText(textList[b], langList[b])]
  IN IF \E b \in 1..Len(textList) : ~processed[b].ok
     THEN [ok |-> FALSE, textIds |-> <<>>, textMask |-> <<>>,
           error |-> processed[CHOOSE b \in 1..Len(textList) :
                                 /\ ~processed[b].ok
                                 /\ \A c \in 1..(b - 1) : processed[c].ok].error]
     ELSE LET textIdsLengths == [b \in 1..Len(textList) |-> StrLen(processed[b].text)]
              maxLen == MaxOf(textIdsLengths)
          IN [ok |-> TRUE,
              textIds |-> [b \in 1..Len(textList) |->
                             TextIdsRow(processed[b].text, maxLen, indexerLength)],
              textMask |-> getTextMask(textIdsLengths),
              error |-> <<>>]

\* ------------------------------------------------------------------- state
VARIABLES
  args,        \* the arguments of the call under way
  pc,          \* where the call is: start, loop, dp, te, denoise, ve, voc, done
  textList,    \* call: the chunks
  i,           \* call: loop index, from 1
  wavCat,      \* call: accumulated waveform
  durCat,      \* call: accumulated duration
  duration,    \* _infer: duration[0] after the speed division
  xt,          \* _infer: the current latent, [batch][dim][time]
  step,        \* _infer: the denoising loop's counter
  cbRet,       \* what the progress callback returned last (the code drops it)
  inFlight,    \* external model invocations started and not yet settled
  chunkLog,    \* what the current _infer call did, in order
  chunked,     \* history: chunkText was called
  nInvoked,    \* history: external model invocations started so far
  failedStage, \* history: the model whose invocation failed, or "none"
  failedMsg,   \* history: the message the backend failed with
  cbThrew,     \* history: the progress callback threw
  wavs,        \* history: the waveform of every chunk completed
  durs,        \* history: the (speed-adjusted) duration of every chunk completed
  outcome,     \* what the caller got
  fn,          \* a helper function applied on its own: name, input, output, done
  ttsEngine,   \* SupertonicTTS.ttsEngine: 0 for null, else the initialize call that made it
  currentStyle, \* SupertonicTTS.currentStyle: "null", else the voice the style is of
  initialized, \* SupertonicTTS.initialized
  engineCalls  \* the calls made on the SupertonicTTS instance, each where it is

vars ==
  <<args, pc, textList, i, wavCat, durCat, duration, xt, step, cbRet, inFlight,
    chunkLog, chunked, nInvoked, failedStage, failedMsg, cbThrew, wavs, durs, outcome,
    fn, ttsEngine, currentStyle, initialized, engineCalls>>

\* the SupertonicTTS instance and the calls on it
engineState == <<ttsEngine, currentStyle, initialized, engineCalls>>

\* the state of a TextToSpeech.call
callState ==
  <<args, pc, textList, i, wavCat, durCat, duration, xt, step, cbRet, inFlight,
    chunkLog, chunked, nInvoked, failedStage, failedMsg, cbThrew, wavs, durs, outcome>>

callVars == <<textList, i, wavCat, durCat>>

histVars == <<chunked, failedStage, failedMsg, cbThrew, wavs, durs>>

\* no helper function is being applied on its own
NoFn == [name |-> "none", input |-> <<>>, output |-> <<>>, done |-> FALSE]

NoOutcome == [kind |-> "none", error |-> <<>>, wav |-> <<>>, duration |-> <<>>, buffer |-> <<>>]

Event(ev, model, s, data) ==
  [ev |-> ev, model |-> model, chunk |-> i, step |-> s, total |-> args.totalStep, data |-> data]

\* the calls on the SupertonicTTS instance, in the order they are made
Calls == 1..MaxCalls

\* a call not made yet
FreeCall ==
  [op |-> "none", voice |-> "none", pc |-> "free",
   before |-> [ttsEngine |-> 0, currentStyle |-> "null", initialized |-> FALSE],
   wrote |-> {}, loadedFor |-> "none", used |-> "none", clobbered |-> FALSE,
   result |-> <<>>]

\* the instance as constructed (fields at lines 213-215), no call made
IdleEngine ==
  /\ ttsEngine = 0
  /\ currentStyle = "null"
  /\ initialized = FALSE
  /\ engineCalls = [c \in Calls |-> FreeCall]

\* a direct caller of TextToSpeech.call chooses every argument
DirectArgs ==
  [caller : {"direct"}, styleDim : {0, 1, 2}, lang : {"en", "xx"},
   nChunks : 0..MaxChunks, totalStep : 0..MaxStep, speed : {1, 2},
   silenceDuration : {0, 3}, hasCallback : BOOLEAN]

\* SupertonicTTS.synthesize fixes the step count, speed, silence and callback
SynthArgs ==
  [caller : {"synthesize"}, styleDim : {1, 2}, lang : {"en", "xx"},
   nChunks : 0..MaxChunks, totalStep : {SynthTotalStep}, speed : {SynthSpeed},
   silenceDuration : {SynthSilence}, hasCallback : {FALSE}]

Init ==
  /\ args \in DirectArgs \cup SynthArgs
  /\ pc = "start"
  /\ textList = <<>>
  /\ i = 1
  /\ wavCat = <<>>
  /\ durCat = 0
  /\ duration = 0
  /\ xt = <<>>
  /\ step = 0
  /\ cbRet = "none"
  /\ inFlight = {}
  /\ chunkLog = <<>>
  /\ chunked = FALSE
  /\ nInvoked = 0
  /\ failedStage = "none"
  /\ failedMsg = ""
  /\ cbThrew = FALSE
  /\ wavs = <<>>
  /\ durs = <<>>
  /\ outcome = NoOutcome
  /\ fn = NoFn
  /\ IdleEngine

\* ----------------------------------------------------------------- actions
Models == {"dp", "te", "ve", "voc"}

\* the call's promise rejects with e; synthesize's catch (lines 330-337) wraps it
Throw(e) ==
  /\ pc' = "done"
  /\ inFlight' = {}
  /\ outcome' = [NoOutcome EXCEPT !.kind = "error",
                   !.error = IF args.caller = "synthesize" THEN SynthesisFailed(e) ELSE e]

\* a check that lets a batch of styles through
StyleOkLoose(dim) == dim >= 1

\* style.ttl.dims[0] !== 1 throws
StyleOk(dim) == dim = 1

\* the input text: args.nChunks paragraphs, "r." then "rr." then "rrr." ...,
\* a blank line between them; the empty string for 0
RECURSIVE InputText(_)
InputText(n) ==
  IF n = 0 THEN <<>>
  ELSE (IF n = 1 THEN <<>> ELSE InputText(n - 1) \o <<"LF", "LF">>)
         \o [k \in 1..n |-> "r"] \o <<".">>

\* call, lines 322-329: the style check, then chunkText and the accumulators
CallEntry ==
  /\ pc = "start"
  /\ IF ~StyleOk(args.styleDim)
     THEN /\ Throw(StyleError)
          /\ UNCHANGED <<callVars, chunked>>
     ELSE /\ textList' = chunkText(InputText(args.nChunks),
                                   IF args.lang = "ko" THEN 120 ELSE 300)
          /\ chunked' = TRUE
          /\ wavCat' = <<>>
          /\ durCat' = 0
          /\ i' = 1
          /\ pc' = "loop"
          /\ UNCHANGED <<inFlight, outcome>>
  /\ UNCHANGED <<engineState, fn, args, duration, xt, step, cbRet, chunkLog, nInvoked, failedStage,
                 failedMsg, cbThrew, wavs, durs>>

\* call, line 345, and synthesize, lines 327-329
CallReturn ==
  /\ pc = "loop"
  /\ ~(i <= Len(textList))
  /\ pc' = "done"
  /\ outcome' = IF args.caller = "synthesize"
                THEN [NoOutcome EXCEPT !.kind = "ok",
                        !.buffer = writeWavFile(wavCat, sampleRate)]
                ELSE [NoOutcome EXCEPT !.kind = "ok", !.wav = wavCat,
                        !.duration = <<durCat>>]
  /\ UNCHANGED <<engineState, fn, args, callVars, duration, xt, step, cbRet, inFlight, chunkLog,
                 nInvoked, histVars>>

\* _infer, line 207: textProcessor.call -> preprocessText throws on the language
InferRejectsLang ==
  /\ pc = "loop"
  /\ i <= Len(textList)
  /\ ~preprocessText(textList[i], args.lang).ok
  /\ chunkLog' = <<>>
  /\ Throw(preprocessText(textList[i], args.lang).error)
  /\ UNCHANGED <<engineState, fn, args, callVars, duration, xt, step, cbRet, nInvoked, histVars>>

\* every remaining chunk started at once, none awaited
ChunksStartedAll(idx, n) == idx..n

\* the chunks whose _infer one iteration of call's loop starts: call awaits each
ChunksStarted(idx, n) == {idx}

\* an _infer that encodes the text before it predicts the duration
InferStartEncodesFirst ==
  /\ pc = "loop"
  /\ i <= Len(textList)
  /\ preprocessText(textList[i], args.lang).ok
  /\ chunkLog' = <<Event("call", "te", 0, <<>>)>>
  /\ inFlight' = {[model |-> "te", chunk |-> i]}
  /\ nInvoked' = nInvoked + 1
  /\ pc' = "te"
  /\ UNCHANGED <<engineState, fn, args, callVars, duration, xt, step, cbRet, histVars, outcome>>

\* call, line 332, and _infer, lines 204-222: the duration predictor is invoked
InferStart ==
  /\ pc = "loop"
  /\ i <= Len(textList)
  /\ preprocessText(textList[i], args.lang).ok
  /\ chunkLog' = <<Event("call", "dp", 0, <<>>)>>
  /\ inFlight' = {[model |-> "dp", chunk |-> c] : c \in ChunksStarted(i, Len(textList))}
  /\ nInvoked' = nInvoked + Cardinality(ChunksStarted(i, Len(textList)))
  /\ pc' = "dp"
  /\ UNCHANGED <<engineState, fn, args, callVars, duration, xt, step, cbRet, histVars, outcome>>

\* duration[i] /= speed; the durations drawn divide exactly
SpeedAdjust(raw, speed) == raw \div speed

\* _infer, lines 223-235: the duration arrives, the text encoder is invoked
DpReturn ==
  /\ pc = "dp"
  /\ \E raw \in DpDurations(args.speed) :
       /\ duration' = SpeedAdjust(raw, args.speed)
       /\ chunkLog' = chunkLog \o <<Event("ret", "dp", 0, <<raw>>),
                                    Event("call", "te", 0, <<>>)>>
  /\ inFlight' = {[model |-> "te", chunk |-> i]}
  /\ nInvoked' = nInvoked + 1
  /\ pc' = "te"
  /\ UNCHANGED <<engineState, fn, args, callVars, xt, step, cbRet, histVars, outcome>>

\* _infer, lines 236-256: the embedding arrives, the latent is sampled
TeReturn ==
  /\ pc = "te"
  /\ \E seed \in NoiseSeeds :
       /\ xt' = sampleNoisyLatent(<<duration>>, sampleRate, cfgs.ae.base_chunk_size,
                  cfgs.ttl.chunk_compress_factor, cfgs.ttl.latent_dim, seed).xt
       /\ chunkLog' = chunkLog \o <<Event("ret", "te", 0, <<>>),
                                    Event("sample", "-", 0, Flat3(xt'))>>
  /\ step' = 0
  /\ inFlight' = {}
  /\ pc' = "denoise"
  /\ UNCHANGED <<engineState, fn, args, callVars, duration, cbRet, nInvoked, histVars, outcome>>

\* a loop that a callback returning false stops
LoopTestStopsOnFalse(s, total, lastCb) == s < total /\ lastCb # "false"

\* the for loop's test, line 257: what the callback returned plays no part
LoopTest(s, total, lastCb) == s < total

\* what a progress callback that returns may return
CallbackReturns == {"undefined", "false"}

\* _infer, lines 257-277: one pass of the loop up to the await
DenoiseStep ==
  /\ pc = "denoise"
  /\ LoopTest(step, args.totalStep, cbRet)
  /\ \E r \in (IF args.hasCallback THEN CallbackReturns ELSE {"none"}) :
       /\ cbRet' = r
       /\ chunkLog' = chunkLog
            \o (IF args.hasCallback
                THEN <<Event("cb", "-", step + 1, <<r>>)>> ELSE <<>>)
            \o <<Event("call", "ve", step, Flat3(xt))>>
  /\ inFlight' = {[model |-> "ve", chunk |-> i]}
  /\ nInvoked' = nInvoked + 1
  /\ pc' = "ve"
  /\ UNCHANGED <<engineState, fn, args, callVars, duration, xt, step, histVars, outcome>>

\* _infer, lines 258-260: the callback throws; nothing catches it up to the caller
CallbackThrows ==
  /\ pc = "denoise"
  /\ LoopTest(step, args.totalStep, cbRet)
  /\ args.hasCallback
  /\ chunkLog' = Append(chunkLog, Event("cbthrow", "-", step + 1, <<>>))
  /\ cbThrew' = TRUE
  /\ Throw(CallbackError)
  /\ UNCHANGED <<engineState, fn, args, callVars, duration, xt, step, cbRet, nInvoked, chunked,
                 failedStage, failedMsg, wavs, durs>>

\* a loop that drops the denoised latent and keeps the one it had
VeReturnKeepsLatent ==
  /\ pc = "ve"
  /\ chunkLog' = Append(chunkLog, Event("ret", "ve", step, DenoisedLatent(Flat3(xt), step)))
  /\ step' = step + 1
  /\ inFlight' = {}
  /\ pc' = "denoise"
  /\ UNCHANGED <<engineState, fn, args, callVars, duration, xt, cbRet, nInvoked, histVars, outcome>>

\* _infer, lines 279-297: the denoised latent, reshaped, is the next latent
VeReturn ==
  /\ pc = "ve"
  /\ LET denoised == DenoisedLatent(Flat3(xt), step)
         latentDim == Len(xt[1])
         latentLen == Len(xt[1][1])
     IN /\ xt' = Reshape3(denoised, 1, latentDim, latentLen)
        /\ chunkLog' = Append(chunkLog, Event("ret", "ve", step, denoised))
  /\ step' = step + 1
  /\ inFlight' = {}
  /\ pc' = "denoise"
  /\ UNCHANGED <<engineState, fn, args, callVars, duration, cbRet, nInvoked, histVars, outcome>>

\* _infer, lines 299-306: after the loop the vocoder is invoked
VocInvoke ==
  /\ pc = "denoise"
  /\ ~LoopTest(step, args.totalStep, cbRet)
  /\ chunkLog' = Append(chunkLog, Event("call", "voc", step, Flat3(xt)))
  /\ inFlight' = {[model |-> "voc", chunk |-> i]}
  /\ nInvoked' = nInvoked + 1
  /\ pc' = "voc"
  /\ UNCHANGED <<engineState, fn, args, callVars, duration, xt, step, cbRet, histVars, outcome>>

\* Math.floor(silenceDuration * this.sampleRate)
SilenceLen(silenceDuration) == FloorSamples(silenceDuration, sampleRate)

\* call, lines 334-342: the accumulators after one chunk
Concat(wCat, dCat, wav, dur, silenceDuration) ==
  IF Len(wCat) = 0
  THEN [wavCat |-> wav, durCat |-> dur]
  ELSE [wavCat |-> wCat \o Zeros(SilenceLen(silenceDuration)) \o wav,
        durCat |-> dCat + (dur + silenceDuration)]

\* _infer, lines 308-310, and call, lines 332-342: the waveform arrives, _infer
\* returns and call concatenates
VocReturn ==
  /\ pc = "voc"
  /\ \E n \in 0..MaxWavLen :
       LET wav == VocoderWav(i, n)
           cat == Concat(wavCat, durCat, wav, duration, args.silenceDuration)
       IN /\ wavCat' = cat.wavCat
          /\ durCat' = cat.durCat
          /\ wavs' = Append(wavs, wav)
          /\ chunkLog' = Append(chunkLog, Event("ret", "voc", step, wav))
  /\ durs' = Append(durs, duration)
  /\ i' = i + 1
  /\ duration' = 0
  /\ xt' = <<>>
  /\ step' = 0
  /\ cbRet' = "none"
  /\ inFlight' = {}
  /\ pc' = "loop"
  /\ UNCHANGED <<engineState, fn, args, textList, nInvoked, chunked, failedStage, failedMsg, cbThrew,
                 outcome>>

\* a failure caught in call's loop, the audio so far returned
OnBackendFailurePartial(m, msg) ==
  /\ chunkLog' = Append(chunkLog, Event("fail", m, step, <<>>))
  /\ failedStage' = m
  /\ failedMsg' = msg
  /\ pc' = "done"
  /\ inFlight' = {}
  /\ outcome' = [NoOutcome EXCEPT !.kind = "ok", !.wav = wavCat, !.duration = <<durCat>>]
  /\ UNCHANGED <<engineState, fn, args, callVars, duration, xt, step, cbRet, nInvoked, chunked,
                 cbThrew, wavs, durs>>

\* an awaited run() rejects: no handler in _infer or call, the error goes up
OnBackendFailure(m, msg) ==
  /\ chunkLog' = Append(chunkLog, Event("fail", m, step, <<>>))
  /\ failedStage' = m
  /\ failedMsg' = msg
  /\ Throw(<<msg>>)
  /\ UNCHANGED <<engineState, fn, args, callVars, duration, xt, step, cbRet, nInvoked, chunked,
                 cbThrew, wavs, durs>>

ModelFails ==
  \E m \in Models, msg \in BackendMsgs :
    /\ pc = m
    /\ OnBackendFailure(m, msg)

Next ==
  \/ CallEntry
  \/ CallReturn
  \/ InferRejectsLang
  \/ InferStart
  \/ DpReturn
  \/ TeReturn
  \/ DenoiseStep
  \/ CallbackThrows
  \/ VeReturn
  \/ VocInvoke
  \/ VocReturn
  \/ ModelFails

Spec == Init /\ [][Next]_vars

\* ------------------------------------------------------------------ claims
CallsIn(log) == SelectSeq(log, LAMBDA e : e.ev = "call")

CallsOf(log, m) == SelectSeq(log, LAMBDA e : e.ev = "call" /\ e.model = m)

ReturnsOf(log, m) == SelectSeq(log, LAMBDA e : e.ev = "ret" /\ e.model = m)

EventsOf(log, ev) == SelectSeq(log, LAMBDA e : e.ev = ev)

Last(s) == s[Len(s)]

\* the models one chunk invokes, in order, for a step count
StageSequence(total) == <<"dp", "te">> \o [k \in 1..total |-> "ve"] \o <<"voc">>

ChunkVocoded == Len(chunkLog) > 0 /\ Last(chunkLog).ev = "ret" /\ Last(chunkLog).model = "voc"

\* C1: for one chunk, _infer invokes the duration predictor, then the text
\* encoder, then the vector estimator once per denoising step, then the vocoder:
\* the models invoked so far are always a prefix of that sequence (so no stage is
\* invoked after a later one started, and the duration predictor, text encoder
\* and vocoder at most once), and the whole sequence once the chunk is vocoded.
C1_StageOrder ==
  LET calls == CallsIn(chunkLog)
      expected == StageSequence(args.totalStep)
  IN /\ Len(calls) <= Len(expected)
     /\ \A k \in 1..Len(calls) : calls[k].model = expected[k]
     /\ \A k \in 1..Len(chunkLog) : chunkLog[k].chunk = chunkLog[1].chunk
     /\ ChunkVocoded =>
          /\ Len(calls) = Len(expected)
          /\ Len(CallsOf(chunkLog, "dp")) = 1
          /\ Len(CallsOf(chunkLog, "te")) = 1
          /\ Len(CallsOf(chunkLog, "voc")) = 1

\* the second chunk of a call with two denoising steps has been vocoded
C1_Witness ==
  /\ ChunkVocoded
  /\ Len(wavs) = 2
  /\ args.totalStep = 2
  /\ Len(CallsOf(chunkLog, "ve")) = 2

\* C2: the denoising loop invokes the vector estimator exactly totalStep times,
\* with current step 0, 1, ..., totalStep-1 and the same total each time; the
\* latent passed at step 0 is the sampled latent, the latent passed at step s+1
\* is the output of step s, and the vocoder gets the output of the last step
\* (the sampled latent when totalStep is 0).
C2_DenoisingChain ==
  LET ve == CallsOf(chunkLog, "ve")
      out == ReturnsOf(chunkLog, "ve")
      sampled == EventsOf(chunkLog, "sample")
      voc == CallsOf(chunkLog, "voc")
  IN /\ Len(ve) <= args.totalStep
     /\ Len(out) <= Len(ve)
     /\ \A k \in 1..Len(ve) :
          /\ ve[k].step = k - 1
          /\ ve[k].total = args.totalStep
          /\ Len(sampled) = 1
          /\ ve[k].data = IF k = 1 THEN sampled[1].data ELSE out[k - 1].data
     /\ Len(voc) > 0 =>
          /\ Len(ve) = args.totalStep
          /\ Len(out) = args.totalStep
          /\ Len(sampled) = 1
          /\ voc[1].data = IF args.totalStep = 0 THEN sampled[1].data
                           ELSE out[args.totalStep].data

\* a vocoder invocation after two steps over a latent that is not empty
C2_Witness ==
  /\ pc = "voc"
  /\ args.totalStep = 2
  /\ Len(Last(chunkLog).data) > 0
  /\ Last(chunkLog).data # EventsOf(chunkLog, "sample")[1].data

\* C3: a supplied progress callback is invoked once per denoising step, with
\* (s+1, totalStep), right before the vector estimator is invoked for step s,
\* and whatever it returns the loop runs all totalStep steps.
C3_ProgressCallback ==
  LET ve == CallsOf(chunkLog, "ve")
      cb == EventsOf(chunkLog, "cb")
      threw == EventsOf(chunkLog, "cbthrow")
  IN /\ ~args.hasCallback => Len(cb) = 0 /\ Len(threw) = 0
     /\ args.hasCallback =>
          /\ Len(cb) = Len(ve)
          /\ \A k \in 1..Len(cb) : cb[k].step = k /\ cb[k].total = args.totalStep
          /\ \A p \in 1..Len(chunkLog) :
               (chunkLog[p].ev = "call" /\ chunkLog[p].model = "ve") =>
                 /\ p > 1
                 /\ chunkLog[p - 1].ev = "cb"
                 /\ chunkLog[p - 1].step = chunkLog[p].step + 1
          /\ Len(CallsOf(chunkLog, "voc")) > 0 => Len(cb) = args.totalStep

\* the vocoder is invoked after two steps although the callback returned false
C3_Witness ==
  /\ pc = "voc"
  /\ args.hasCallback
  /\ args.totalStep = 2
  /\ \E k \in 1..Len(chunkLog) :
       chunkLog[k].ev = "cb" /\ chunkLog[k].step = 1 /\ chunkLog[k].data = <<"false">>

\* C4: a failure inside the progress callback does not abort synthesis: the
\* call still returns its waveform.
C4_CallbackFailureDoesNotAbort == cbThrew => outcome.kind # "error"

\* C5: when an external model invocation fails, the call is over at once and
\* fails: the failed invocation is the last thing the chunk did (not retried, no
\* further model invoked, later chunks never started), nothing is in flight,
\* no step can follow, and the caller gets an error and no audio, whatever
\* chunks were completed before.
C5_FailureAbortsCall ==
  failedStage # "none" =>
    /\ pc = "done"
    /\ ~ENABLED Next
    /\ inFlight = {}
    /\ Last(chunkLog).ev = "fail"
    /\ Last(chunkLog).model = failedStage
    /\ Len(wavs) < Len(textList)
    /\ Last(chunkLog).chunk = Len(wavs) + 1
    /\ nInvoked = Len(wavs) * Len(StageSequence(args.totalStep)) + Len(CallsIn(chunkLog))
    /\ outcome.kind = "error"
    /\ outcome.wav = <<>>
    /\ outcome.duration = <<>>
    /\ outcome.buffer = <<>>

\* the vocoder fails in the second chunk of a synthesize call whose first chunk
\* gave audio
C5_Witness ==
  /\ failedStage = "voc"
  /\ args.caller = "synthesize"
  /\ Len(wavs) = 1
  /\ Len(wavCat) > 0
  /\ outcome.kind = "error"

\* the words a message would use to name a pipeline stage
StageWords(m) ==
  CASE m = "dp" -> {"dp", "duration", "duration prediction", "duration predictor"}
    [] m = "te" -> {"te", "text encoding", "text encoder"}
    [] m = "ve" -> {"ve", "denoising", "vector estimator", "vector estimation"}
    [] m = "voc" -> {"voc", "vocoding", "vocoder"}
    [] OTHER -> {}

C7_StyleRejectedFirst ==
  (args.styleDim # 1 /\ pc # "start") =>
    /\ pc = "done"
    /\ outcome.kind = "error"
    /\ Last(outcome.error) = StyleError[1]
    /\ ~chunked
    /\ textList = <<>>
    /\ nInvoked = 0
    /\ chunkLog = <<>>

\* a two-style call on a two-chunk text in an unsupported language was rejected
C7_Witness ==
  /\ args.styleDim = 2
  /\ args.nChunks = 2
  /\ args.lang = "xx"
  /\ args.totalStep = 2
  /\ pc = "done"
  /\ outcome.error = StyleError

\* wav_1, then for every later chunk the silence and its waveform
RECURSIVE JoinWithSilence(_, _)
JoinWithSilence(ws, silenceLen) ==
  IF Len(ws) = 0 THEN <<>>
  ELSE IF Len(ws) = 1 THEN ws[1]
  ELSE JoinWithSilence(SubSeq(ws, 1, Len(ws) - 1), silenceLen)
         \o Zeros(silenceLen) \o Last(ws)

\* C8: over n >= 1 chunks the returned waveform is wav_1 followed, for every
\* later chunk, by floor(silenceDuration * sampleRate) zeros and its waveform,
\* whatever the lengths of the chunk waveforms.
C8_WaveformJoined ==
  (pc = "done" /\ outcome.kind = "ok" /\ args.caller = "direct" /\ Len(wavs) >= 1) =>
    outcome.wav = JoinWithSilence(wavs, FloorSamples(args.silenceDuration, sampleRate))

\* C9: over n >= 1 chunks the reported duration is d_1 + ... + d_n plus
\* silenceDuration once per seam, whatever the lengths of the chunk waveforms.
C9_DurationSummed ==
  (pc = "done" /\ outcome.kind = "ok" /\ args.caller = "direct" /\ Len(durs) >= 1) =>
    outcome.duration = <<SeqSum(durs) + (Len(durs) - 1) * args.silenceDuration>>

\* C10: chunks are processed one after the other in document order: at most one
\* external model invocation is in flight, it belongs to the chunk the loop is
\* at, every earlier chunk has been vocoded and no later chunk has started.
C10_ChunksSequential ==
  /\ Cardinality(inFlight) <= 1
  /\ \A inv \in inFlight :
       /\ inv.chunk = i
       /\ inv.model = pc
       /\ inv.chunk \in 1..Len(textList)
       /\ textList[inv.chunk] = [k \in 1..(Len(wavs) + 1) |-> "r"] \o <<".">>
       /\ \A k \in 1..Len(chunkLog) : chunkLog[k].chunk = inv.chunk
  /\ Len(wavs) = Len(durs)
  /\ chunked /\ pc # "done" => Len(wavs) = i - 1

\* the duration predictor is in flight for the second chunk
C10_Witness ==
  /\ [model |-> "dp", chunk |-> 2] \in inFlight
  /\ Len(wavs) = 1

\* ------------------------------------------- helper functions on their own
\* every string of at most n characters of an alphabet
Strings(alphabet, n) == UNION {[1..k -> alphabet] : k \in 0..n}

\* no TextToSpeech.call is under way
IdleCall ==
  /\ args = [caller |-> "none", styleDim |-> 1, lang |-> "en", nChunks |-> 0,
             totalStep |-> 0, speed |-> 1, silenceDuration |-> 0, hasCallback |-> FALSE]
  /\ pc = "idle"
  /\ textList = <<>>
  /\ i = 1
  /\ wavCat = <<>>
  /\ durCat = 0
  /\ duration = 0
  /\ xt = <<>>
  /\ step = 0
  /\ cbRet = "none"
  /\ inFlight = {}
  /\ chunkLog = <<>>
  /\ chunked = FALSE
  /\ nInvoked = 0
  /\ failedStage = "none"
  /\ failedMsg = ""
  /\ cbThrew = FALSE
  /\ wavs = <<>>
  /\ durs = <<>>
  /\ outcome = NoOutcome

\* a capital, a letter, a sentence end, a space and a line feed: enough for
\* "Dr." and the initial "D.", sentences and paragraphs
ChunkAlphabet == {"D", "r", ".", " ", "LF"}

ChunkInit ==
  /\ fn \in [name : {"chunkText"},
             input : [text : Strings(ChunkAlphabet, MaxTextLen), maxLen : 1..MaxPack],
             output : {<<>>}, done : {FALSE}]
  /\ IdleCall
  /\ IdleEngine

\* chunkText(text, maxLen)
ChunkTextCall ==
  /\ fn.name = "chunkText"
  /\ ~fn.done
  /\ fn' = [fn EXCEPT !.output = chunkText(fn.input.text, fn.input.maxLen), !.done = TRUE]
  /\ UNCHANGED <<callState, engineState>>

SpecChunk == ChunkInit /\ [][ChunkTextCall]_vars

\* s_1, a space, s_2, a space, ...
RECURSIVE JoinSpace(_)
JoinSpace(ss) ==
  IF Len(ss) = 0 THEN <<>>
  ELSE IF Len(ss) = 1 THEN ss[1]
  ELSE ss[1] \o <<" ">> \o JoinSpace(Tail(ss))

\* the sentences of a list of paragraphs, in order
RECURSIVE AllSentences(_)
AllSentences(paragraphs) ==
  IF Len(paragraphs) = 0 THEN <<>>
  ELSE Sentences(Head(paragraphs)) \o AllSentences(Tail(paragraphs))

ChunkDone == fn.name = "chunkText" /\ fn.done

\* C11: if every sentence of the text is at most maxLen long, so is every chunk;
\* a chunk longer than maxLen is a single sentence that is itself longer.
C11_ChunksWithinMaxLen ==
  ChunkDone =>
    LET sentences == AllSentences(Paragraphs(fn.input.text))
        maxLen == fn.input.maxLen
    IN /\ (\A k \in 1..Len(sentences) : StrLen(sentences[k]) <= maxLen) =>
            \A c \in 1..Len(fn.output) : StrLen(fn.output[c]) <= maxLen
       /\ \A c \in 1..Len(fn.output) :
            StrLen(fn.output[c]) > maxLen =>
              \E k \in 1..Len(sentences) : sentences[k] = fn.output[c]

\* two sentences packed into one chunk that is exactly maxLen long
C11_Witness ==
  /\ ChunkDone
  /\ Len(Sentences(fn.input.text)) = 2
  /\ Len(fn.output) = 1
  /\ StrLen(fn.output[1]) = fn.input.maxLen

\* C12: chunkText neither drops, duplicates nor reorders sentences: the chunks,
\* joined by spaces, are the sentences of the text joined by spaces, paragraph
\* after paragraph, and every chunk is a run of consecutive sentences of one
\* paragraph joined by spaces.
C12_SentencesPreserved ==
  ChunkDone =>
    LET paragraphs == Paragraphs(fn.input.text)
    IN /\ JoinSpace(fn.output) = JoinSpace(AllSentences(paragraphs))
       /\ Len(fn.output) >= Len(paragraphs)
       /\ Len(fn.output) <= Len(AllSentences(paragraphs))
       /\ \A c \in 1..Len(fn.output) :
            \E p \in 1..Len(paragraphs) :
              LET ss == Sentences(paragraphs[p])
              IN \E a \in 1..Len(ss) : \E b \in a..Len(ss) :
                   fn.output[c] = JoinSpace(SubSeq(ss, a, b))

\* two sentences of one paragraph that went into two chunks
C12_Witness ==
  /\ ChunkDone
  /\ Len(Paragraphs(fn.input.text)) = 1
  /\ Len(Sentences(fn.input.text)) = 2
  /\ Len(fn.output) = 2

\* C13 as stated: for every string chunkText returns a list that is not empty
C13_ChunksNonEmpty == ChunkDone => Len(fn.output) >= 1

\* C13, amended: for every text with a character that is not white space
\* chunkText returns a list that is not empty, of chunks that are not empty; for
\* the empty string and for white space alone it returns the empty list.
C13_ChunksNonEmptyUnlessBlank ==
  ChunkDone =>
    /\ Len(Trim(fn.input.text)) > 0 =>
         /\ Len(fn.output) >= 1
         /\ \A c \in 1..Len(fn.output) : Len(fn.output[c]) >= 1
    /\ Len(Trim(fn.input.text)) = 0 => fn.output = <<>>

\* a text of one sentence longer than maxLen came out as one chunk
C13_Witness ==
  /\ ChunkDone
  /\ fn.input.text = <<"r", "r", "r", ".">>
  /\ fn.input.maxLen = 2
  /\ fn.output = <<fn.input.text>>

\* the pieces a text is made of: characters the steps of preprocessText
\* treat differently, an expression it expands and a tag it writes
PrePieces ==
  {<<"a">>, <<" ">>, <<".">>, <<",">>, <<"\"">>, <<"_">>, <<"@">>, <<"/">>,
   <<"EMOJI">>, <<"ELLIPSIS">>, <<"e", ".", "g", ".", ",">>, <<"<", "e", "n", ">">>}

RECURSIVE Flatten(_)
Flatten(ss) == IF Len(ss) = 0 THEN <<>> ELSE Head(ss) \o Flatten(Tail(ss))

PreTexts == {Flatten(ps) : ps \in Strings(PrePieces, MaxPreLen)}

PreLangs == {"en", "ko", "xx"}

PreInit ==
  /\ fn \in [name : {"preprocessText"},
             input : [text : PreTexts, lang : PreLangs],
             output : {<<>>}, done : {FALSE}]
  /\ IdleCall
  /\ IdleEngine

\* preprocessText(text, lang)
PreprocessTextCall ==
  /\ fn.name = "preprocessText"
  /\ ~fn.done
  /\ fn' = [fn EXCEPT !.output = preprocessText(fn.input.text, fn.input.lang), !.done = TRUE]
  /\ UNCHANGED <<callState, engineState>>

SpecPre == PreInit /\ [][PreprocessTextCall]_vars

PreDone == fn.name = "preprocessText" /\ fn.done

TokAlphabet == {"a", "GOTHIC"}

TokLangs == {"en", "xx"}

\* batches of one to MaxBatch texts, one language for the batch as in _infer
TokInit ==
  /\ \E n \in 1..MaxBatch :
       fn \in [name : {"UnicodeProcessor.call"},
               input : [textList : [1..n -> Strings(TokAlphabet, MaxTokLen)],
                        lang : TokLangs,
                        indexerLength : IndexerLengths],
               output : {<<>>}, done : {FALSE}]
  /\ IdleCall
  /\ IdleEngine

\* UnicodeProcessor.call(textList, langList)
TokenizeCall ==
  /\ fn.name = "UnicodeProcessor.call"
  /\ ~fn.done
  /\ fn' = [fn EXCEPT
       !.output = UnicodeProcessorCall(fn.input.textList,
                    [b \in 1..Len(fn.input.textList) |-> fn.input.lang],
                    fn.input.indexerLength),
       !.done = TRUE]
  /\ UNCHANGED <<callState, engineState>>

SpecTok == TokInit /\ [][TokenizeCall]_vars

TokDone == fn.name = "UnicodeProcessor.call" /\ fn.done

\* the processed text of batch item b
Processed(b) == preprocessText(fn.input.textList[b], fn.input.lang).text

\* C14: for every batch of texts that is not empty, textIds and textMask are
\* rectangular, as wide as the longest processed text of the batch (length(i)
\* being the length of processed text i as the code takes it, text.length);
\* mask[i][0][j] is 1 exactly when j < length(i), so row i sums to length(i),
\* and ids[i][j] is 0 for every j >= length(i).
C14_IdsAndMaskRectangular ==
  (TokDone /\ fn.output.ok) =>
    LET B == Len(fn.input.textList)
        width == CHOOSE w \in {StrLen(Processed(b)) : b \in 1..B} :
                   \A b \in 1..B : StrLen(Processed(b)) <= w
    IN /\ Len(fn.output.textIds) = B
       /\ Len(fn.output.textMask) = B
       /\ \A b \in 1..B :
            LET length == StrLen(Processed(b))
                ids == fn.output.textIds[b]
                mask == fn.output.textMask[b]
            IN /\ Len(ids) = width
               /\ Len(mask) = 1
               /\ Len(mask[1]) = width
               /\ \A j \in 1..width : mask[1][j] = (IF j <= length THEN 1 ELSE 0)
               /\ SeqSum(mask[1]) = length
               /\ \A j \in (length + 1)..width : ids[j] = 0

\* a batch of two texts of different lengths: the shorter row is padded
C14_Witness ==
  /\ TokDone
  /\ fn.output.ok
  /\ Len(fn.input.textList) = 2
  /\ StrLen(Processed(1)) < StrLen(Processed(2))
  /\ fn.output.textIds[1][Len(fn.output.textIds[1])] = 0
  /\ fn.output.textMask[1][1][Len(fn.output.textMask[1][1])] = 0

\* the id of a code point: the table's entry, or -1 beyond the table
Lookup(codePoint, indexerLength) ==
  IF codePoint < indexerLength THEN IndexerAt(codePoint) ELSE -1

\* C15: the unpadded part of the id row of a normalized text has exactly one
\* entry per code point of the text, in order: the table's value at the code
\* point, or -1 when the code point is beyond the table; a code point above
\* U+FFFF contributes one entry.
C15_OneIdPerCodePoint ==
  (TokDone /\ fn.output.ok) =>
    \A b \in 1..Len(fn.input.textList) :
      SubSeq(fn.output.textIds[b], 1, SeqSum(fn.output.textMask[b][1]))
        = [k \in 1..Len(Processed(b)) |->
             Lookup(CodePoint(Processed(b)[k]), fn.input.indexerLength)]

\* C17: for every text t and supported language L,
\* preprocessText(preprocessText(t, L), L) = preprocessText(t, L).
C17_Idempotent ==
  (PreDone /\ fn.output.ok) =>
    preprocessText(fn.output.text, fn.input.lang) = fn.output

\* how often k occurs in s
RECURSIVE Occurrences(_, _)
Occurrences(s, k) ==
  IF Len(s) < Len(k) THEN 0
  ELSE (IF SubSeq(s, 1, Len(k)) = k THEN 1 ELSE 0) + Occurrences(Tail(s), k)

\* C18: for every text (the empty string too) and every supported language L
\* preprocessText returns <L>body</L>: the text opens with the tag, closes with
\* the closing tag, the closing tag occurs once, and body is not empty and
\* ends in a terminal character.
C18_WrappedOnceNonEmptyTerminated ==
  (PreDone /\ fn.input.lang \in AVAILABLE_LANGS) =>
    LET L == fn.input.lang
        out == fn.output.text
        body == SubSeq(out, Len(OpenTag(L)) + 1, Len(out) - Len(CloseTag(L)))
    IN /\ fn.output.ok
       /\ Len(out) >= Len(OpenTag(L)) + Len(CloseTag(L)) + 1
       /\ SubSeq(out, 1, Len(OpenTag(L))) = OpenTag(L)
       /\ SubSeq(out, Len(out) - Len(CloseTag(L)) + 1, Len(out)) = CloseTag(L)
       /\ Occurrences(out, CloseTag(L)) = 1
       /\ Len(body) >= 1
       /\ body[Len(body)] \in Terminal
       /\ body[1] \notin WhiteSpace

\* the empty text: the body is the period that was appended
C18_Witness ==
  /\ PreDone
  /\ fn.input.text = <<>>
  /\ fn.input.lang = "ko"
  /\ fn.output.text = <<"<", "k", "o", ">", ".", "<", "/", "k", "o", ">">>

\* the call's error is the invalid-language error, wrapped or not
IsInvalidLangError(e) ==
  /\ Len(e) >= 3
  /\ SubSeq(e, Len(e) - 2, Len(e)) = InvalidLangError(args.lang)

\* C16 as stated: a call (with a single style) with a language tag outside
\* {en, ko, es, pt, fr} always fails with the invalid-language error, for every
\* text, the empty one too, before any model is invoked; a call with a tag of
\* the set never raises that error.
C16_InvalidLangAlwaysFails ==
  (args.styleDim = 1 /\ pc = "done") =>
    /\ args.lang \notin AVAILABLE_LANGS =>
         /\ outcome.kind = "error"
         /\ IsInvalidLangError(outcome.error)
         /\ nInvoked = 0
    /\ args.lang \in AVAILABLE_LANGS => ~IsInvalidLangError(outcome.error)

\* C16, amended: a call with a single style, a text that has a character other
\* than white space and a language tag outside the set fails with the
\* invalid-language error and invokes no model; on the empty text it returns
\* with no error; a call with a tag of the set never raises that error.
C16_InvalidLangFailsUnlessBlank ==
  /\ args.lang \notin AVAILABLE_LANGS => nInvoked = 0
  /\ (args.styleDim = 1 /\ pc = "done") =>
       /\ (args.lang \notin AVAILABLE_LANGS /\ Len(Trim(InputText(args.nChunks))) > 0) =>
            /\ outcome.kind = "error"
            /\ IsInvalidLangError(outcome.error)
            /\ wavs = <<>>
       /\ (args.lang \notin AVAILABLE_LANGS /\ Len(Trim(InputText(args.nChunks))) = 0) =>
            outcome.kind = "ok"
       /\ args.lang \in AVAILABLE_LANGS => ~IsInvalidLangError(outcome.error)

\* synthesize on a two-paragraph text in an unsupported language was rejected
C16_Witness ==
  /\ args.caller = "synthesize"
  /\ args.styleDim = 1
  /\ args.nChunks = 2
  /\ args.lang = "xx"
  /\ pc = "done"
  /\ outcome.error = SynthesisFailed(InvalidLangError("xx"))
  /\ nInvoked = 0

\* the configurations sampleNoisyLatent is applied under
LatentConfigs ==
  [sampleRate : {5, 7}, baseChunkSize : {1, 2}, chunkCompress : {1, 2}, latentDim : {1}]

LatentInit ==
  /\ \E n \in 1..MaxLatBatch :
       fn \in [name : {"sampleNoisyLatent"},
               input : [duration : [1..n -> 0..MaxLatDur], cfg : LatentConfigs,
                        seed : NoiseSeeds],
               output : {<<>>}, done : {FALSE}]
  /\ IdleCall
  /\ IdleEngine

\* sampleNoisyLatent(duration, sampleRate, baseChunkSize, chunkCompress, latentDim)
SampleNoisyLatentCall ==
  /\ fn.name = "sampleNoisyLatent"
  /\ ~fn.done
  /\ fn' = [fn EXCEPT
       !.output = sampleNoisyLatent(fn.input.duration, fn.input.cfg.sampleRate,
                    fn.input.cfg.baseChunkSize, fn.input.cfg.chunkCompress,
                    fn.input.cfg.latentDim, fn.input.seed),
       !.done = TRUE]
  /\ UNCHANGED <<callState, engineState>>

SpecLatent == LatentInit /\ [][SampleNoisyLatentCall]_vars

LatentDone == fn.name = "sampleNoisyLatent" /\ fn.done

\* floor(n / m) and ceil(n / m) of naturals, by their defining inequalities
FloorOf(n, m) == CHOOSE q \in 0..n : q * m <= n /\ n < (q + 1) * m

CeilOf(n, m) == CHOOSE q \in 0..n : q * m >= n /\ (q = 0 \/ (q - 1) * m < n)

\* latentLen_b = ceil(floor(duration_b * sampleRate) / (baseChunkSize * chunkCompress))
LatentLenOf(b) ==
  CeilOf(FloorOf(fn.input.duration[b] * fn.input.cfg.sampleRate, 10),
         fn.input.cfg.baseChunkSize * fn.input.cfg.chunkCompress)

\* C19: for every batch of durations, every batch item b, latent dimension d and
\* time index t >= latentLen_b the latent's entry is exactly zero, and row b of
\* the mask is 1 at the first latentLen_b positions and 0 beyond; latent and
\* mask are as wide as the longest item.
C19_LatentZeroBeyondLength ==
  LatentDone =>
    LET B == Len(fn.input.duration)
        width == CHOOSE w \in {LatentLenOf(b) : b \in 1..B} :
                   \A b \in 1..B : LatentLenOf(b) <= w
        xtOut == fn.output.xt
        maskOut == fn.output.latentMask
    IN /\ Len(xtOut) = B
       /\ Len(maskOut) = B
       /\ \A b \in 1..B :
            /\ Len(xtOut[b]) = fn.input.cfg.latentDim * fn.input.cfg.chunkCompress
            /\ Len(maskOut[b]) = 1
            /\ Len(maskOut[b][1]) = width
            /\ \A t \in 1..width :
                 maskOut[b][1][t] = (IF t <= LatentLenOf(b) THEN 1 ELSE 0)
            /\ \A d \in 1..Len(xtOut[b]) :
                 /\ Len(xtOut[b][d]) = width
                 /\ \A t \in (LatentLenOf(b) + 1)..width : xtOut[b][d][t] = 0

\* a batch of a short and a long item: the short one's latent ends in a zero,
\* the long one's does not
C19_Witness ==
  /\ LatentDone
  /\ Len(fn.input.duration) = 2
  /\ LatentLenOf(1) >= 1
  /\ LatentLenOf(1) < LatentLenOf(2)
  /\ fn.output.xt[1][1][LatentLenOf(2)] = 0
  /\ fn.output.xt[2][1][LatentLenOf(2)] # 0
  /\ fn.output.xt[1][1][1] # 0

\* samples in halves: below -1, -0.5, 0, 0.5, above 1
WavSamples == {-3, -1, 0, 1, 3}

WavRates == {1, 255, 256, 24000, 44100, 65537}

WavInit ==
  /\ fn \in [name : {"writeWavFile"},
             input : [audioData : Strings(WavSamples, MaxSamples), sampleRate : WavRates],
             output : {<<>>}, done : {FALSE}]
  /\ IdleCall
  /\ IdleEngine

\* writeWavFile(audioData, sampleRate)
WriteWavFileCall ==
  /\ fn.name = "writeWavFile"
  /\ ~fn.done
  /\ fn' = [fn EXCEPT !.output = writeWavFile(fn.input.audioData, fn.input.sampleRate),
                      !.done = TRUE]
  /\ UNCHANGED <<callState, engineState>>

SpecWav == WavInit /\ [][WriteWavFileCall]_vars

WavDone == fn.name = "writeWavFile" /\ fn.done

\* the little-endian fields of a buffer at a byte offset counted from 0
U32At(buf, off) ==
  buf[off + 1] + 256 * buf[off + 2] + 65536 * buf[off + 3] + 16777216 * buf[off + 4]

U16At(buf, off) == buf[off + 1] + 256 * buf[off + 2]

\* C20: for n samples and sample rate r the buffer has 44 + 2n bytes and its
\* header declares RIFF size 36 + 2n, WAVE, a fmt subchunk of size 16, format
\* tag 1, 1 channel, sample rate r, byte rate 2r, block align 2, 16 bits per
\* sample and data size 2n.
C20_WavHeader ==
  WavDone =>
    LET buf == fn.output
        n == Len(fn.input.audioData)
        r == fn.input.sampleRate
    IN /\ Len(buf) = 44 + 2 * n
       /\ \A k \in 1..Len(buf) : buf[k] \in 0..255
       /\ SubSeq(buf, 1, 4) = <<82, 73, 70, 70>>
       /\ U32At(buf, 4) = 36 + 2 * n
       /\ SubSeq(buf, 9, 12) = <<87, 65, 86, 69>>
       /\ SubSeq(buf, 13, 16) = <<102, 109, 116, 32>>
       /\ U32At(buf, 16) = 16
       /\ U16At(buf, 20) = 1
       /\ U16At(buf, 22) = 1
       /\ U32At(buf, 24) = r
       /\ U32At(buf, 28) = 2 * r
       /\ U16At(buf, 32) = 2
       /\ U16At(buf, 34) = 16
       /\ SubSeq(buf, 37, 40) = <<100, 97, 116, 97>>
       /\ U32At(buf, 40) = 2 * n

\* two samples at 44100 Hz: 48 bytes
C20_Witness ==
  /\ WavDone
  /\ Len(fn.input.audioData) = 2
  /\ fn.input.sampleRate = 44100
  /\ Len(fn.output) = 48
  /\ SubSeq(fn.output, 25, 28) = <<68, 172, 0, 0>>

\* ------------------------------------------------------------ SupertonicTTS
\* The calls on one instance interleave at their awaits: an action is what a
\* call does from one await to the next.
Voices == {"F1", "M1"}

AssetMsgs == {"fetch failed"}

NotInitializedError == <<"TTS engine not initialized">>

SynthNotInitializedError == <<"TTS engine not initialized. Call initialize() first.">>

NullReferenceError == <<"TypeError: Cannot read properties of null">>

\* initialize's catch: new Error(`Initialization failed: ${error.message}`)
InitializationFailed(e) == <<"Initialization failed: ">> \o e

\* loadVoice's catch: new Error(`Failed to load voice: ${error.message}`)
LoadVoiceFailed(e) == <<"Failed to load voice: ">> \o e

\* a loader that returns the default style whatever the voice
loadVoiceStyleDefault(voice) == "F1"

\* loadVoiceStyle(`${baseVoiceUrl}/${voice}.json`): the style of that voice
loadVoiceStyle(voice) == voice

\* a getCurrentVoice that tracks the voice whose style is loaded
getCurrentVoiceTracked(style) == style

\* getCurrentVoice(): always null
getCurrentVoice(style) == "null"

\* synthesize, line 306: !this.currentStyle || voice !== this.getCurrentVoice()
NeedsLoad(voice) == currentStyle = "null" \/ voice # getCurrentVoice(currentStyle)

Snapshot == [ttsEngine |-> ttsEngine, currentStyle |-> currentStyle, initialized |-> initialized]

\* call c is the next one to be made
CanStart(c) ==
  /\ engineCalls[c].pc = "free"
  /\ \A d \in 1..(c - 1) : engineCalls[d].pc # "free"

Started(c, op, voice) ==
  [FreeCall EXCEPT !.op = op, !.voice = voice, !.before = Snapshot]

Finish(rec, result) == [rec EXCEPT !.pc = "done", !.result = result]

\* another call stored currentStyle: the calls that loaded their style and have
\* not yet passed it on no longer find it there
Clobber(cs, c) ==
  [d \in Calls |->
     IF d # c /\ cs[d].pc = "afterLoad" THEN [cs[d] EXCEPT !.clobbered = TRUE] ELSE cs[d]]

\* initialize, lines 233-253: returns at once when initialized, else starts
\* loading the models
InitializeStart(c) ==
  /\ CanStart(c)
  /\ engineCalls' = [engineCalls EXCEPT ![c] =
       IF initialized THEN Finish(Started(c, "initialize", "none"), <<"ok">>)
       ELSE [Started(c, "initialize", "none") EXCEPT !.pc = "loadModels"]]
  /\ UNCHANGED <<ttsEngine, currentStyle, initialized, callState, fn>>

\* initialize, lines 247-260: the models arrived, the default style is requested
InitializeModelsLoaded(c) ==
  /\ engineCalls[c].pc = "loadModels"
  /\ ttsEngine' = c
  /\ engineCalls' = [engineCalls EXCEPT ![c].pc = "loadStyle",
                                        ![c].wrote = @ \cup {"ttsEngine"}]
  /\ UNCHANGED <<currentStyle, initialized, callState, fn>>

\* initialize, lines 260-266: the default style arrived
InitializeStyleLoaded(c) ==
  /\ engineCalls[c].pc = "loadStyle"
  /\ currentStyle' = loadVoiceStyle("F1")
  /\ initialized' = TRUE
  /\ engineCalls' = Clobber([engineCalls EXCEPT
       ![c] = Finish([@ EXCEPT !.wrote = @ \cup {"currentStyle", "initialized"}], <<"ok">>)], c)
  /\ UNCHANGED <<ttsEngine, callState, fn>>

\* initialize, lines 267-273: loadTextToSpeech or loadVoiceStyle rejected
InitializeLoadFails(c) ==
  /\ engineCalls[c].pc \in {"loadModels", "loadStyle"}
  /\ \E msg \in AssetMsgs :
       engineCalls' = [engineCalls EXCEPT ![c] = Finish(@, InitializationFailed(<<msg>>))]
  /\ UNCHANGED <<ttsEngine, currentStyle, initialized, callState, fn>>

\* loadVoice, lines 277-285, called by the user
LoadVoiceStart(c) ==
  /\ CanStart(c)
  /\ \E voice \in Voices :
       engineCalls' = [engineCalls EXCEPT ![c] =
         IF ~initialized \/ ttsEngine = 0
         THEN Finish(Started(c, "loadVoice", voice), NotInitializedError)
         ELSE [Started(c, "loadVoice", voice) EXCEPT !.pc = "fetchStyle",
                                                     !.loadedFor = voice]]
  /\ UNCHANGED <<ttsEngine, currentStyle, initialized, callState, fn>>

\* the pipeline is invoked with this.currentStyle, lines 316-324; a null
\* ttsEngine or style throws into synthesize's catch
Invoke(rec) ==
  IF ttsEngine = 0 \/ currentStyle = "null"
  THEN Finish(rec, SynthesisFailed(NullReferenceError))
  ELSE [rec EXCEPT !.pc = "pipeline", !.used = currentStyle]

\* synthesize, lines 301-309: the check, then loadVoice up to its await (or the
\* pipeline at once if no load were needed)
SynthesizeStart(c) ==
  /\ CanStart(c)
  /\ \E voice \in Voices :
       engineCalls' = [engineCalls EXCEPT ![c] =
         IF ~initialized \/ ttsEngine = 0
         THEN Finish(Started(c, "synthesize", voice), SynthNotInitializedError)
         ELSE IF NeedsLoad(voice)
              THEN [Started(c, "synthesize", voice) EXCEPT !.pc = "fetchStyle",
                                                          !.loadedFor = voice]
              ELSE Invoke(Started(c, "synthesize", voice))]
  /\ UNCHANGED <<ttsEngine, currentStyle, initialized, callState, fn>>

\* loadVoice, lines 283-285: the style arrived and is stored; a loadVoice call
\* is done, a synthesize call resumes in a later microtask
LoadVoiceReturn(c) ==
  /\ engineCalls[c].pc = "fetchStyle"
  /\ currentStyle' = loadVoiceStyle(engineCalls[c].voice)
  /\ engineCalls' = Clobber([engineCalls EXCEPT ![c] =
       IF @.op = "loadVoice"
       THEN Finish([@ EXCEPT !.wrote = @ \cup {"currentStyle"}], <<"ok">>)
       ELSE [@ EXCEPT !.pc = "afterLoad", !.wrote = @ \cup {"currentStyle"}]], c)
  /\ UNCHANGED <<ttsEngine, initialized, callState, fn>>

\* loadVoice, lines 286-293: loadVoiceStyle rejected; synthesize's catch wraps
\* what loadVoice throws
LoadVoiceFails(c) ==
  /\ engineCalls[c].pc = "fetchStyle"
  /\ \E msg \in AssetMsgs :
       engineCalls' = [engineCalls EXCEPT ![c] =
         Finish(@, IF @.op = "loadVoice" THEN LoadVoiceFailed(<<msg>>)
                   ELSE SynthesisFailed(LoadVoiceFailed(<<msg>>)))]
  /\ UNCHANGED <<ttsEngine, currentStyle, initialized, callState, fn>>

\* synthesize, lines 311-324: resumed after loadVoice, it reads this.ttsEngine
\* and this.currentStyle and invokes the pipeline
SynthesizeInvoke(c) ==
  /\ engineCalls[c].pc = "afterLoad"
  /\ engineCalls' = [engineCalls EXCEPT ![c] = Invoke(@)]
  /\ UNCHANGED <<ttsEngine, currentStyle, initialized, callState, fn>>

\* synthesize, lines 326-329: the waveform arrived; writeWavFile reads
\* this.ttsEngine.sampleRate
SynthesizeReturn(c) ==
  /\ engineCalls[c].pc = "pipeline"
  /\ engineCalls' = [engineCalls EXCEPT ![c] =
       Finish(@, IF ttsEngine = 0 THEN SynthesisFailed(NullReferenceError) ELSE <<"ok">>)]
  /\ UNCHANGED <<ttsEngine, currentStyle, initialized, callState, fn>>

\* synthesize, lines 330-337: the pipeline rejected
SynthesizeFails(c) ==
  /\ engineCalls[c].pc = "pipeline"
  /\ \E msg \in BackendMsgs :
       engineCalls' = [engineCalls EXCEPT ![c] = Finish(@, SynthesisFailed(<<msg>>))]
  /\ UNCHANGED <<ttsEngine, currentStyle, initialized, callState, fn>>

\* dispose, lines 345-350: no await
Dispose(c) ==
  /\ CanStart(c)
  /\ ttsEngine' = 0
  /\ currentStyle' = "null"
  /\ initialized' = FALSE
  /\ engineCalls' = Clobber([engineCalls EXCEPT ![c] =
       Finish([Started(c, "dispose", "none") EXCEPT
                 !.wrote = {"ttsEngine", "currentStyle", "initialized"}], <<"ok">>)], c)
  /\ UNCHANGED <<callState, fn>>

EngineInit ==
  /\ IdleEngine
  /\ IdleCall
  /\ fn = NoFn

EngineNext ==
  \E c \in Calls :
    \/ InitializeStart(c)
    \/ InitializeModelsLoaded(c)
    \/ InitializeStyleLoaded(c)
    \/ InitializeLoadFails(c)
    \/ LoadVoiceStart(c)
    \/ SynthesizeStart(c)
    \/ LoadVoiceReturn(c)
    \/ LoadVoiceFails(c)
    \/ SynthesizeInvoke(c)
    \/ SynthesizeReturn(c)
    \/ SynthesizeFails(c)
    \/ Dispose(c)

SpecEngine == EngineInit /\ [][EngineNext]_vars

\* call c failed on an asset load
AssetLoadFailed(c) ==
  /\ engineCalls[c].pc = "done"
  /\ engineCalls[c].op \in {"initialize", "loadVoice"}
  /\ engineCalls[c].result[1] \in {"Initialization failed: ", "Failed to load voice: "}

\* C21: when an asset load fails during initialize or loadVoice, the failed
\* call has assigned none of ttsEngine, currentStyle, initialized; after a
\* failed initialize with no other call made the engine has no engine and no
\* style and is not initialized.
C21_FailedLoadLeavesState ==
  \A c \in Calls :
    AssetLoadFailed(c) =>
      /\ engineCalls[c].wrote = {}
      /\ (engineCalls[c].op = "initialize" /\ \A d \in Calls \ {c} : engineCalls[d].pc = "free") =>
           /\ ttsEngine = 0
           /\ currentStyle = "null"
           /\ ~initialized

C23_InitializedImpliesLoaded ==
  initialized => (ttsEngine # 0 /\ currentStyle # "null")

\* C24 as stated: when only initialize and synthesize calls are made, every
\* synthesize call runs the pipeline with the style of the voice it requested,
\* also when calls for different voices overlap.
C24_OwnStyleAlways ==
  (\A d \in Calls : engineCalls[d].op \in {"none", "initialize", "synthesize"}) =>
    \A c \in Calls :
      (engineCalls[c].op = "synthesize" /\ engineCalls[c].used # "none") =>
        engineCalls[c].used = engineCalls[c].voice

\* C24, amended: a synthesize call runs the pipeline with the style of the
\* voice it requested unless another call assigned currentStyle between the
\* moment the call's own load was stored and the moment it invoked the pipeline.
C24_OwnStyleUnlessOverwritten ==
  \A c \in Calls :
    (/\ engineCalls[c].op = "synthesize"
     /\ engineCalls[c].used # "none"
     /\ ~engineCalls[c].clobbered) =>
      engineCalls[c].used = engineCalls[c].voice

\* two overlapping synthesize calls for different voices, each in the pipeline
\* with its own style
C24_Witness ==
  \E c, d \in Calls :
    /\ c # d
    /\ engineCalls[c].op = "synthesize"
    /\ engineCalls[d].op = "synthesize"
    /\ engineCalls[c].voice # engineCalls[d].voice
    /\ engineCalls[c].pc = "pipeline"
    /\ engineCalls[d].pc = "pipeline"
    /\ engineCalls[c].used = engineCalls[c].voice
    /\ engineCalls[d].used = engineCalls[d].voice

====
